---- MODULE Spec2Model ----
(***************************************************************************)
(* Clustered users on a map (src/unnamed/part_000): the module-level       *)
(* source and layer configuration, addPinImages, zoomCluster, filterData,  *)
(* addClusteredUsersToMap and reRenderUsersOnMap, run against a map        *)
(* engine that keeps sources, layers, click listeners and images.          *)
(*                                                                         *)
(* JavaScript runs one callback at a time: while a call of                 *)
(* addClusteredUsersToMap / reRenderUsersOnMap is in progress (pc # "idle")*)
(* only its next statement can run; clicks, image-load completions and     *)
(* expansion-zoom completions are delivered only when pc = "idle".         *)
(***************************************************************************)
EXTENDS Integers, Sequences, FiniteSets, Bags, TLC

VARIABLES
    sources,       \* module-level `sources` record (part_000:19-28)
    layers,        \* module-level `layers` record (part_000:31-100)
    mapSources,    \* per map: source id -> configuration installed in the style
    mapLayers,     \* per map: sequence of installed layer specs, in paint order
    mapListeners,  \* per map: bag of [layer, handler] click bindings
    mapImages,     \* per map: set of registered image names
    imageLoads,    \* per map: number of loadImage completions still pending
    zoomQueries,   \* per map: bag of pending getClusterExpansionZoom callbacks
    last,          \* the last event delivered, with the calls its handlers made
    pc,            \* statement the call in progress is at, or "idle"
    frame,         \* arguments of the call in progress (or of the last call)
    outcome,       \* "none", "running", "returned" or "threw"
    engineErrors,  \* error events the engine fired during the current/last call
    uncaught,      \* errors raised inside asynchronous callbacks
    data,          \* the paginated search results handed to filterData
    extracted      \* whether filterData was called, and the array it returned

vars == <<sources, layers, mapSources, mapLayers, mapListeners, mapImages,
          imageLoads, zoomQueries, last, pc, frame, outcome, engineErrors,
          uncaught, data, extracted>>

mapVars == <<mapSources, mapLayers, mapListeners, mapImages>>
asyncVars == <<imageLoads, zoomQueries, last>>
configVars == <<sources, layers>>
extractVars == <<data, extracted>>

----------------------------------------------------------------------------
(* Bounds and input domains *)

MaxIds == 1          \* longest ID list passed to reRenderUsersOnMap
MaxListeners == 3    \* calls start only while fewer bindings than this exist
MaxLoads == 2        \* calls start only while fewer image loads are pending
MaxQueries == 1      \* clicks are delivered only while fewer queries are pending
MaxPages == 2        \* most pages in the data handed to filterData
MaxResults == 3      \* most results in one page

Maps == {"A", "B"}
Callbacks == {"cb1", "cb2"}
Undefined == "undefined"
CallbackArgs == Callbacks \cup {Undefined}
UserIds == {1, 2}
ClusterIds == {0, 1}
ZoomLevels == {12}

RECURSIVE SeqsUpTo(_, _)
SeqsUpTo(S, n) ==
    IF n = 0 THEN {<<>>}
    ELSE LET shorter == SeqsUpTo(S, n - 1)
         IN  shorter \cup {Append(s, x) : s \in shorter, x \in S}

Null == [isNull |-> TRUE, list |-> <<>>]
IdList(l) == [isNull |-> FALSE, list |-> l]
IdArgs == {Null} \cup {IdList(l) : l \in SeqsUpTo(UserIds, MaxIds)}

Range(s) == {s[i] : i \in DOMAIN s}

----------------------------------------------------------------------------
(* Module-level configuration *)

SourceKey == "clustered-users"

InitSources ==
    [cluster |-> TRUE, clusterMaxZoom |-> 14, clusterRadius |-> 50,
     data |-> "/geojson/users", promoteId |-> "id", type |-> "geojson"]

InitLayers ==
    [clusterCountLayer |->
        [id |-> "clusters-count", source |-> "clustered-users", type |-> "symbol"],
     clusterLayer |->
        [id |-> "clusters", source |-> "clustered-users", type |-> "circle"],
     unclusteredPointLayer |->
        [id |-> "unclustered-points", source |-> "clustered-users", type |-> "symbol"]]

\* The expression ["in", ["get", "id"], ["literal", ids]]
InFilter(ids) == [op |-> "in", get |-> "id", literal |-> ids]

HasFilter(config) == "filter" \in DOMAIN config

\* Does a feature with promoted id `id` pass the configuration's predicate?
Passes(config, id) ==
    IF HasFilter(config) THEN id \in Range(config["filter"].literal) ELSE TRUE

\* sources["clustered-users"].filter = value
SetKey(config, value) ==
    [k \in DOMAIN config \cup {"filter"} |->
        IF k = "filter" THEN value ELSE config[k]]

\* delete sources["clustered-users"].filter
DeleteKey(config) == [k \in DOMAIN config \ {"filter"} |-> config[k]]

----------------------------------------------------------------------------
(* The map engine, as the calls of part_000 use it *)

NoSources == [k \in {} |-> k]

LayerIds(ls) == [i \in DOMAIN ls |-> ls[i].id]
HasLayer(ls, id) == \E i \in DOMAIN ls : ls[i].id = id
HasSource(srcs, id) == id \in DOMAIN srcs

\* map.addLayer(layer): appended on top; an existing id or an unknown source
\* fires an error event and adds nothing
AddLayerOk(srcs, ls, layer) == ~HasLayer(ls, layer.id) /\ HasSource(srcs, layer.source)
AddLayerTo(srcs, ls, layer) == IF AddLayerOk(srcs, ls, layer) THEN Append(ls, layer) ELSE ls
AddLayerErrors(srcs, ls, layer) ==
    (IF HasLayer(ls, layer.id) THEN {"layer already exists"} ELSE {})
    \cup (IF ~HasSource(srcs, layer.source) THEN {"source not found"} ELSE {})

\* map.removeLayer(id): a missing id fires an error event
RECURSIVE Without(_, _)
Without(ls, id) ==
    IF ls = <<>> THEN <<>>
    ELSE IF Head(ls).id = id THEN Without(Tail(ls), id)
    ELSE <<Head(ls)>> \o Without(Tail(ls), id)

RemoveLayerErrors(ls, id) == IF HasLayer(ls, id) THEN {} ELSE {"layer does not exist"}

\* map.on("click", layerId, handler): one more binding, never deduplicated
Binding(layerId, handler) == [layer |-> layerId, handler |-> handler]
On(ls, layerId, handler) == ls (+) SetToBag({Binding(layerId, handler)})

\* map.off("click", layerId, handler): removes one matching binding, if any
Off(ls, layerId, handler) == ls (-) SetToBag({Binding(layerId, handler)})

\* number of click bindings on a layer
Bound(ls, layerId) ==
    BagCardinality([b \in {x \in DOMAIN ls : x.layer = layerId} |-> ls[b]])

----------------------------------------------------------------------------
(* Click events and expansion-zoom results *)

CoordOf(c) == <<c + 1, c + 2>>
ClusterFeature(c) ==
    [properties |-> [cluster_id |-> c], geometry |-> [coordinates |-> CoordOf(c)]]
PointFeature(u) ==
    [properties |-> [id |-> u], geometry |-> [coordinates |-> CoordOf(u)]]

NoFeatures == [features |-> <<>>]
Events ==
    {NoFeatures}
    \cup {[features |-> <<PointFeature(1)>>]}
    \cup {[features |-> <<ClusterFeature(c)>>] : c \in ClusterIds}

\* a completion (_error, zoom): zoom is {} when undefined
ZoomResults ==
    {[error |-> TRUE, zoom |-> {}], [error |-> FALSE, zoom |-> {}]}
    \cup {[error |-> FALSE, zoom |-> {z}] : z \in ZoomLevels}

\* feature.properties[key]: {} when the property is undefined
Property(feature, key) ==
    IF key \in DOMAIN feature.properties THEN {feature.properties[key]} ELSE {}

\* ZoomClusterReturnsEarly without the test of cluster_id
ReturnsEarlyWithoutIdTest(ev) == ev.features = <<>>

\* part_000:121-122: the early return of zoomCluster; 0 is falsy
ZoomClusterReturnsEarly(ev) ==
    \/ ev.features = <<>>
    \/ Property(ev.features[1], "cluster_id") \in {{}, {0}}

\* part_000:124-132: the query zoomCluster issues, with what its callback closes over
ZoomQuery(ev) ==
    [cluster_id |-> Property(ev.features[1], "cluster_id"),
     center |-> ev.features[1].geometry.coordinates]

----------------------------------------------------------------------------
(* State after construction: empty maps, configuration as declared *)

NoFrame == [op |-> "none", map |-> "A", ids |-> Null, cb |-> Undefined]
NoQuery == [cluster_id |-> {}, center |-> <<0, 0>>]
NoResult == [error |-> FALSE, zoom |-> {}]

\* kind: "none", "click", "zoom" or "image"; flyTo: the options of the map.flyTo
\* calls made; invoked: the userClickedCallback invocations made; zoomed: the
\* zoomCluster invocations made; issued: the getClusterExpansionZoom calls made;
\* skipped: the image-load completion returned at its second hasImage check
NoEvent ==
    [kind |-> "none", map |-> "A", layer |-> "none", event |-> NoFeatures,
     query |-> NoQuery, result |-> NoResult, flyTo |-> <<>>, invoked |-> 0,
     zoomed |-> 0, issued |-> 0, skipped |-> FALSE]

NotExtracted == [called |-> FALSE, value |-> <<>>]

Init ==
    /\ data = <<>>
    /\ extracted = NotExtracted
    /\ sources = [k \in {SourceKey} |-> InitSources]
    /\ layers = InitLayers
    /\ mapSources = [m \in Maps |-> NoSources]
    /\ mapLayers = [m \in Maps |-> <<>>]
    /\ mapListeners = [m \in Maps |-> EmptyBag]
    /\ mapImages = [m \in Maps |-> {}]
    /\ imageLoads = [m \in Maps |-> 0]
    /\ zoomQueries = [m \in Maps |-> EmptyBag]
    /\ last = NoEvent
    /\ pc = "idle"
    /\ frame = NoFrame
    /\ outcome = "none"
    /\ engineErrors = {}
    /\ uncaught = {}

----------------------------------------------------------------------------
(* Calls made by the application *)

CanCall(m) ==
    /\ pc = "idle"
    /\ BagCardinality(mapListeners[m]) < MaxListeners
    /\ imageLoads[m] < MaxLoads

\* part_000:148-151: entry of addClusteredUsersToMap(map, userClickedCallback)
CallAddClusteredUsersToMap(m, cb) ==
    /\ CanCall(m)
    /\ pc' = "addSource"
    /\ frame' = [op |-> "addClusteredUsersToMap", map |-> m, ids |-> Null, cb |-> cb]
    /\ outcome' = "running"
    /\ engineErrors' = {}
    /\ UNCHANGED <<extractVars, configVars, mapVars, asyncVars, uncaught>>

\* part_000:172-176: entry of reRenderUsersOnMap(map, ids, userClickedCallback)
CallReRenderUsersOnMap(m, ids, cb) ==
    /\ CanCall(m)
    /\ pc' = "off"
    /\ frame' = [op |-> "reRenderUsersOnMap", map |-> m, ids |-> ids, cb |-> cb]
    /\ outcome' = "running"
    /\ engineErrors' = {}
    /\ UNCHANGED <<extractVars, configVars, mapVars, asyncVars, uncaught>>

Step(from, to) == pc = from /\ pc' = to /\ UNCHANGED <<frame, outcome>>
Throw(from) == pc = from /\ pc' = "idle" /\ outcome' = "threw" /\ UNCHANGED frame
Return(from) == pc = from /\ pc' = "idle" /\ outcome' = "returned" /\ UNCHANGED frame

----------------------------------------------------------------------------
(* reRenderUsersOnMap, statement by statement *)

\* part_000:179-182: both handlers are unbound only if a callback was passed
Unbind ==
    /\ Step("off", "removeClusterLayer")
    /\ LET m == frame.map
       IN  mapListeners' =
             [mapListeners EXCEPT ![m] =
                IF frame.cb # Undefined
                THEN Off(Off(@, layers.unclusteredPointLayer.id, frame.cb),
                         layers.clusterLayer.id, "zoomCluster")
                ELSE @]
    /\ UNCHANGED <<extractVars, configVars, mapSources, mapLayers, mapImages, asyncVars,
                   engineErrors, uncaught>>

\* map.removeLayer(id) as one statement of the call in progress
RemoveLayerStep(from, to, id) ==
    /\ Step(from, to)
    /\ LET m == frame.map
       IN  /\ mapLayers' = [mapLayers EXCEPT ![m] = Without(@, id)]
           /\ engineErrors' = engineErrors \cup RemoveLayerErrors(mapLayers[m], id)
    /\ UNCHANGED <<extractVars, configVars, mapSources, mapListeners, mapImages, asyncVars, uncaught>>

\* RemoveClusterLayer with the id of the point layer
RemoveClusterLayerWrongId ==
    RemoveLayerStep("removeClusterLayer", "removeClusterCountLayer",
                    layers.unclusteredPointLayer.id)

\* part_000:184
RemoveClusterLayer ==
    RemoveLayerStep("removeClusterLayer", "removeClusterCountLayer", layers.clusterLayer.id)

\* part_000:185
RemoveClusterCountLayer ==
    RemoveLayerStep("removeClusterCountLayer", "removeUnclusteredPointLayer",
                    layers.clusterCountLayer.id)

\* RemoveUnclusteredPointLayer with a mistyped layer id
RemoveUnclusteredPointLayerTypo ==
    RemoveLayerStep("removeUnclusteredPointLayer", "removeSource", "unclustered-point")

\* part_000:186
RemoveUnclusteredPointLayer ==
    RemoveLayerStep("removeUnclusteredPointLayer", "removeSource",
                    layers.unclusteredPointLayer.id)

\* RemoveSource that also drops the images of the style with the source
RemoveSourceDropsImages ==
    LET m == frame.map
        inUse == \E i \in DOMAIN mapLayers[m] : mapLayers[m][i].source = SourceKey
    IN  IF ~HasSource(mapSources[m], SourceKey)
        THEN /\ Throw("removeSource")
             /\ UNCHANGED <<extractVars, configVars, mapVars, asyncVars, engineErrors, uncaught>>
        ELSE /\ Step("removeSource", "setFilter")
             /\ mapSources' =
                  [mapSources EXCEPT ![m] =
                     IF inUse THEN @ ELSE [k \in DOMAIN @ \ {SourceKey} |-> @[k]]]
             /\ mapImages' = [mapImages EXCEPT ![m] = {}]
             /\ engineErrors' =
                  engineErrors \cup (IF inUse THEN {"source in use"} ELSE {})
             /\ UNCHANGED <<extractVars, configVars, mapLayers, mapListeners,
                            asyncVars, uncaught>>

\* part_000:187: map.removeSource throws on a missing source; a source still
\* used by a layer is kept and an error event is fired
RemoveSource ==
    LET m == frame.map
        inUse == \E i \in DOMAIN mapLayers[m] : mapLayers[m][i].source = SourceKey
    IN  IF ~HasSource(mapSources[m], SourceKey)
        THEN /\ Throw("removeSource")
             /\ UNCHANGED <<extractVars, configVars, mapVars, asyncVars, engineErrors, uncaught>>
        ELSE /\ Step("removeSource", "setFilter")
             /\ mapSources' =
                  [mapSources EXCEPT ![m] =
                     IF inUse THEN @ ELSE [k \in DOMAIN @ \ {SourceKey} |-> @[k]]]
             /\ engineErrors' =
                  engineErrors \cup (IF inUse THEN {"source in use"} ELSE {})
             /\ UNCHANGED <<extractVars, configVars, mapLayers, mapListeners, mapImages,
                            asyncVars, uncaught>>

\* SetFilter with the array tested by its length: an empty list clears the filter
SetFilterByLength ==
    /\ Step("setFilter", "addSource")
    /\ sources' =
         [sources EXCEPT ![SourceKey] =
            IF ~frame.ids.isNull /\ frame.ids.list # <<>>
            THEN SetKey(@, InFilter(frame.ids.list))
            ELSE DeleteKey(@)]
    /\ UNCHANGED <<extractVars, layers, mapVars, asyncVars, engineErrors, uncaught>>

\* SetFilter assigning a new configuration object that holds only the filter
SetFilterReplacesConfig ==
    /\ Step("setFilter", "addSource")
    /\ sources' =
         [sources EXCEPT ![SourceKey] =
            IF ~frame.ids.isNull
            THEN [k \in {"filter"} |-> InFilter(frame.ids.list)]
            ELSE DeleteKey(@)]
    /\ UNCHANGED <<extractVars, layers, mapVars, asyncVars, engineErrors, uncaught>>

\* part_000:189-197: an array, even an empty one, is truthy
SetFilter ==
    /\ Step("setFilter", "addSource")
    /\ sources' =
         [sources EXCEPT ![SourceKey] =
            IF ~frame.ids.isNull
            THEN SetKey(@, InFilter(frame.ids.list))
            ELSE DeleteKey(@)]
    /\ UNCHANGED <<extractVars, layers, mapVars, asyncVars, engineErrors, uncaught>>

----------------------------------------------------------------------------
(* addClusteredUsersToMap, statement by statement (part_000:199 calls it) *)

\* AddSource on an engine that replaces an existing source instead of throwing
AddSourceReplaces ==
    LET m == frame.map
    IN  /\ Step("addSource", "addPinImages")
        /\ mapSources' =
             [mapSources EXCEPT ![m] =
                [k \in DOMAIN @ \cup {SourceKey} |->
                   IF k = SourceKey THEN sources[SourceKey] ELSE @[k]]]
        /\ UNCHANGED <<extractVars, configVars, mapLayers, mapListeners, mapImages,
                       asyncVars, engineErrors, uncaught>>

\* part_000:152: map.addSource throws if the id is taken; the style keeps
\* its own copy of the configuration
AddSource ==
    LET m == frame.map
    IN  IF HasSource(mapSources[m], SourceKey)
        THEN /\ Throw("addSource")
             /\ UNCHANGED <<extractVars, configVars, mapVars, asyncVars, engineErrors, uncaught>>
        ELSE /\ Step("addSource", "addPinImages")
             /\ mapSources' =
                  [mapSources EXCEPT ![m] =
                     [k \in DOMAIN @ \cup {SourceKey} |->
                        IF k = SourceKey THEN sources[SourceKey] ELSE @[k]]]
             /\ UNCHANGED <<extractVars, configVars, mapLayers, mapListeners, mapImages,
                            asyncVars, engineErrors, uncaught>>

\* AddPinImages with the hasImage test inverted: no load on a map without the icon
AddPinImagesInverted ==
    /\ Step("addPinImages", "addClusterLayer")
    /\ LET m == frame.map
       IN  imageLoads' =
             [imageLoads EXCEPT ![m] = IF "user-pin" \in mapImages[m] THEN @ + 1 ELSE @]
    /\ UNCHANGED <<extractVars, configVars, mapVars, zoomQueries, last, engineErrors,
                   uncaught>>

\* part_000:102-105: addPinImages starts a load unless the image is registered
AddPinImages ==
    /\ Step("addPinImages", "addClusterLayer")
    /\ LET m == frame.map
       IN  imageLoads' =
             [imageLoads EXCEPT ![m] = IF "user-pin" \in mapImages[m] THEN @ ELSE @ + 1]
    /\ UNCHANGED <<extractVars, configVars, mapVars, zoomQueries, last, engineErrors, uncaught>>

\* map.addLayer(layer) as one statement of the call in progress
AddLayerStep(from, to, layer) ==
    /\ Step(from, to)
    /\ LET m == frame.map
       IN  /\ mapLayers' =
                [mapLayers EXCEPT ![m] = AddLayerTo(mapSources[m], @, layer)]
           /\ engineErrors' =
                engineErrors \cup AddLayerErrors(mapSources[m], mapLayers[m], layer)
    /\ UNCHANGED <<extractVars, configVars, mapSources, mapListeners, mapImages, asyncVars, uncaught>>

\* AddClusterLayer adding the count layer first
AddClusterLayerSwapped ==
    AddLayerStep("addClusterLayer", "addClusterCountLayer", layers.clusterCountLayer)

\* part_000:154
AddClusterLayer ==
    AddLayerStep("addClusterLayer", "addClusterCountLayer", layers.clusterLayer)

\* part_000:155
AddClusterCountLayer ==
    AddLayerStep("addClusterCountLayer", "addUnclusteredPointLayer",
                 layers.clusterCountLayer)

\* AddUnclusteredPointLayer adding the cluster layer a second time
AddUnclusteredPointLayerCopied ==
    AddLayerStep("addUnclusteredPointLayer", "bindPoint", layers.clusterLayer)

\* part_000:156
AddUnclusteredPointLayer ==
    AddLayerStep("addUnclusteredPointLayer", "bindPoint", layers.unclusteredPointLayer)

\* part_000:158-160
BindPoint ==
    /\ Step("bindPoint", "bindCluster")
    /\ LET m == frame.map
       IN  mapListeners' =
             [mapListeners EXCEPT ![m] =
                IF frame.cb # Undefined
                THEN On(@, layers.unclusteredPointLayer.id, frame.cb)
                ELSE @]
    /\ UNCHANGED <<extractVars, configVars, mapSources, mapLayers, mapImages, asyncVars,
                   engineErrors, uncaught>>

\* part_000:162-163, and the return to the caller
BindCluster ==
    /\ Return("bindCluster")
    /\ LET m == frame.map
       IN  mapListeners' =
             [mapListeners EXCEPT ![m] = On(@, layers.clusterLayer.id, "zoomCluster")]
    /\ UNCHANGED <<extractVars, configVars, mapSources, mapLayers, mapImages, asyncVars,
                   engineErrors, uncaught>>

----------------------------------------------------------------------------
(* Events delivered between calls *)

\* map.addImage(name, ...): a name already registered fires an error event
AddImageErrors(images, name) ==
    IF name \in images THEN {"image already exists"} ELSE {}

\* HasImageAtCompletion with the second check left out
NoCheckAtCompletion(images) == FALSE

\* part_000:110: the second check, made when the load completes
HasImageAtCompletion(images) == "user-pin" \in images

\* ThrownAtCompletion with the error swallowed
SwallowedAtCompletion(error) == {}

\* part_000:106-108: the completion rethrows a load error; nothing up the
\* stack of an asynchronous completion catches it
ThrownAtCompletion(error) == IF error THEN {"image load failed"} ELSE {}

\* part_000:105-112: the completion of map.loadImage
ImageLoaded(m, error) ==
    /\ pc = "idle"
    /\ imageLoads[m] > 0
    /\ imageLoads' = [imageLoads EXCEPT ![m] = @ - 1]
    /\ IF error
       THEN /\ uncaught' = uncaught \cup ThrownAtCompletion(error)
            /\ UNCHANGED mapImages
       ELSE IF HasImageAtCompletion(mapImages[m])
       THEN UNCHANGED <<mapImages, uncaught>>
       ELSE /\ mapImages' = [mapImages EXCEPT ![m] = @ \cup {"user-pin"}]
            /\ uncaught' = uncaught \cup AddImageErrors(mapImages[m], "user-pin")
    /\ last' = [NoEvent EXCEPT !.kind = "image", !.map = m, !.result.error = error,
                               !.skipped = ~error /\ HasImageAtCompletion(mapImages[m])]
    /\ UNCHANGED <<extractVars, configVars, mapSources, mapLayers, mapListeners, zoomQueries,
                   pc, frame, outcome, engineErrors>>

\* part_000:115-133: what one invocation of zoomCluster(ev) adds to the
\* pending queries of the map
zoomCluster(queries, ev) ==
    IF ZoomClusterReturnsEarly(ev)
    THEN queries
    ELSE queries (+) SetToBag({ZoomQuery(ev)})

RECURSIVE Times(_, _, _)
Times(n, queries, ev) ==
    IF n = 0 THEN queries ELSE Times(n - 1, zoomCluster(queries, ev), ev)

\* A click on a layer: the engine calls every handler bound to that layer
\* (part_000:159, 162) with the event
Click(m, layerId, ev) ==
    LET zoomBindings == CopiesIn(Binding(layerId, "zoomCluster"), mapListeners[m])
        after == Times(zoomBindings, zoomQueries[m], ev)
    IN  /\ pc = "idle"
        /\ BagCardinality(zoomQueries[m]) < MaxQueries
        /\ zoomQueries' = [zoomQueries EXCEPT ![m] = after]
        /\ last' = [NoEvent EXCEPT !.kind = "click", !.map = m, !.layer = layerId,
                                   !.event = ev,
                                   !.invoked = Bound(mapListeners[m], layerId) - zoomBindings,
                                   !.zoomed = zoomBindings,
                                   !.issued = BagCardinality(after)
                                              - BagCardinality(zoomQueries[m])]
        /\ UNCHANGED <<extractVars, configVars, mapVars, imageLoads, pc, frame, outcome,
                       engineErrors, uncaught>>

\* part_000:127-130: the options zoomCluster's callback passes to map.flyTo
FlyToOptions(q, res) == [center |-> q.center, zoom |-> res.zoom]

\* part_000:126-131: the completion of getClusterExpansionZoom
ZoomDone(m, q, res) ==
    /\ pc = "idle"
    /\ BagIn(q, zoomQueries[m])
    /\ zoomQueries' = [zoomQueries EXCEPT ![m] = @ (-) SetToBag({q})]
    /\ last' = [NoEvent EXCEPT !.kind = "zoom", !.map = m, !.query = q, !.result = res,
                               !.flyTo = <<FlyToOptions(q, res)>>]
    /\ UNCHANGED <<extractVars, configVars, mapVars, imageLoads, pc, frame, outcome,
                   engineErrors, uncaught>>

----------------------------------------------------------------------------
(* Specification: one map widget in use *)

ClickLayers == {"clusters", "unclustered-points"}

Statement ==
    \/ Unbind
    \/ RemoveClusterLayer
    \/ RemoveClusterCountLayer
    \/ RemoveUnclusteredPointLayer
    \/ RemoveSource
    \/ SetFilter
    \/ AddSource
    \/ AddPinImages
    \/ AddClusterLayer
    \/ AddClusterCountLayer
    \/ AddUnclusteredPointLayer
    \/ BindPoint
    \/ BindCluster

On1(m) ==
    \/ \E cb \in CallbackArgs : CallAddClusteredUsersToMap(m, cb)
    \/ \E ids \in IdArgs, cb \in CallbackArgs : CallReRenderUsersOnMap(m, ids, cb)
    \/ \E error \in BOOLEAN : ImageLoaded(m, error)
    \/ \E layerId \in ClickLayers, ev \in Events : Click(m, layerId, ev)
    \/ \E q \in BagToSet(zoomQueries[m]), res \in ZoomResults : ZoomDone(m, q, res)

Next == Statement \/ On1("A")

Spec == Init /\ [][Next]_vars

----------------------------------------------------------------------------
(* Vocabulary of the properties *)

InstallOrder == <<"clusters", "clusters-count", "unclustered-points">>

Installed(m) == HasSource(mapSources[m], SourceKey)
InstalledIds(m) == LayerIds(mapLayers[m])

FullyInstalled(m) ==
    /\ Installed(m)
    /\ InstalledIds(m) = InstallOrder
    /\ \A i \in DOMAIN mapLayers[m] : mapLayers[m][i].source = SourceKey

FullyUninstalled(m) == ~Installed(m) /\ mapLayers[m] = <<>>

Returned(op) == pc = "idle" /\ outcome = "returned" /\ frame.op = op

----------------------------------------------------------------------------
\* C1: after reRenderUsersOnMap(map, S, cb) returns, the source installed on
\* the map carries exactly the predicate "promoted id is a member of S" (also
\* for the empty list); after reRenderUsersOnMap(map, null, cb) returns it
\* carries no predicate, whatever calls came before.
C1_FilterInstalled ==
    Returned("reRenderUsersOnMap") =>
        /\ Installed(frame.map)
        /\ LET config == mapSources[frame.map][SourceKey]
           IN  IF frame.ids.isNull
               THEN ~HasFilter(config) /\ \A id \in UserIds : Passes(config, id)
               ELSE /\ HasFilter(config)
                    /\ \A id \in UserIds :
                         Passes(config, id) <=> id \in Range(frame.ids.list)

\* an empty list was applied: the installed predicate rejects every id
C1_Witness ==
    /\ Returned("reRenderUsersOnMap")
    /\ frame.ids = IdList(<<>>)
    /\ Installed(frame.map)
    /\ \A id \in UserIds : ~Passes(mapSources[frame.map][SourceKey], id)

\* C2: however many image loads were started before the first one completed,
\* and in whatever order they complete, map.addImage never runs on a
\* registered icon (no "image already exists" error), and after a
\* successful completion exactly the one icon is registered.
C2_IconRegisteredOnce ==
    /\ "image already exists" \notin uncaught
    /\ \A m \in Maps : mapImages[m] \subseteq {"user-pin"}
    /\ (last.kind = "image" /\ ~last.result.error) => mapImages[last.map] = {"user-pin"}

\* the last of several overlapping loads completed and found the icon registered
C2_Witness ==
    /\ last.kind = "image"
    /\ last.skipped
    /\ imageLoads[last.map] = 0
    /\ mapImages[last.map] = {"user-pin"}
    /\ Returned("reRenderUsersOnMap")

\* C3: the map holds at most one click binding on "clusters" and at most one
\* on "unclustered-points", at every point of every sequence of calls.
C3_OneBindingPerLayer ==
    \A m \in Maps : \A layerId \in ClickLayers : Bound(mapListeners[m], layerId) <= 1

\* C4: reRenderUsersOnMap unbinds the handlers the preceding install bound
\* before it removes any layer: no layer is removed while a click handler is
\* still bound to it, with or without a point-click callback.
C4_UnboundBeforeRemoved ==
    \A m \in Maps : \A layerId \in ClickLayers :
        Bound(mapListeners[m], layerId) > 0 => HasLayer(mapLayers[m], layerId)

\* C5 as stated: the layers are removed in the reverse of their install
\* order, so the layers left on the map are always the first ones installed.
IsPrefix(s, t) == Len(s) <= Len(t) /\ \A i \in DOMAIN s : s[i] = t[i]

C6_LayersHaveSource ==
    /\ \A m \in Maps : \A i \in DOMAIN mapLayers[m] :
          HasSource(mapSources[m], mapLayers[m][i].source)
    /\ engineErrors \cap {"source in use", "source not found"} = {}

\* inside a reinstall: the source is back and no layer has been added yet
C6_Witness ==
    /\ pc = "addClusterLayer"
    /\ frame.op = "reRenderUsersOnMap"
    /\ Installed(frame.map)
    /\ mapLayers[frame.map] = <<>>

\* C7: addClusteredUsersToMap adds the source first and then the layers in the
\* order "clusters", "clusters-count", "unclustered-points", on a first install
\* and on every reinstall by reRenderUsersOnMap.
C7_InstallOrder ==
    LET ids == InstalledIds(frame.map)
    IN  /\ pc \in {"addPinImages", "addClusterLayer"} =>
              Installed(frame.map) /\ ids = <<>>
        /\ pc = "addClusterCountLayer" => ids = <<"clusters">>
        /\ pc = "addUnclusteredPointLayer" => ids = <<"clusters", "clusters-count">>
        /\ pc \in {"bindPoint", "bindCluster"} => ids = InstallOrder
        /\ (pc = "idle" /\ outcome = "returned") => ids = InstallOrder

\* a reinstall, two layers in
C7_Witness ==
    /\ pc = "addUnclusteredPointLayer"
    /\ frame.op = "reRenderUsersOnMap"
    /\ InstalledIds(frame.map) = <<"clusters", "clusters-count">>

\* C8: whenever no call is in progress (a click, an image-load completion or
\* a zoom completion can be delivered), each map is fully installed (source
\* and the three layers, all on "clustered-users") or fully uninstalled.
C8_NoPartialInstall ==
    pc = "idle" => \A m \in Maps : FullyInstalled(m) \/ FullyUninstalled(m)

\* a click was delivered to a map that a reRenderUsersOnMap call reinstalled
C8_Witness ==
    /\ Returned("reRenderUsersOnMap")
    /\ last.kind = "click"
    /\ FullyInstalled(last.map)

\* C9: when the expansion-zoom query completes with an error or without a
\* zoom value, the completion callback does not call map.flyTo.
C9_NoFlyToWithoutZoom ==
    (last.kind = "zoom" /\ (last.result.error \/ last.result.zoom = {})) =>
        last.flyTo = <<>>

\* C10: a click delivered to zoomCluster with an empty feature list, or with a
\* first feature that has no cluster_id property, issues no expansion-zoom
\* query and moves no camera.
NoClusterId(ev) ==
    ev.features = <<>> \/ "cluster_id" \notin DOMAIN ev.features[1].properties

C10_NoClusterNoQuery ==
    (last.kind = "click" /\ NoClusterId(last.event)) =>
        last.issued = 0 /\ last.flyTo = <<>>

\* zoomCluster was called with a feature that has no cluster_id
C10_Witness ==
    /\ last.kind = "click"
    /\ last.zoomed > 0
    /\ last.event = [features |-> <<PointFeature(1)>>]
    /\ last.issued = 0
    /\ zoomQueries[last.map] = EmptyBag

\* C11 as stated: a failed image load is propagated to the caller that
\* requested the install, i.e. that call ends with the error.
C11_PropagatedToCaller ==
    (last.kind = "image" /\ last.result.error) =>
        (outcome = "threw" /\ "image load failed" \notin uncaught)

\* C11 (amended): a failed image load is rethrown from the load-completion
\* callback rather than swallowed; it surfaces as an uncaught error after the
\* install call has returned, the outcome of that call is not changed, and
\* the completion does not register the icon.
C11_RethrownAtCompletion ==
    [][(pc = "idle" /\ pc' = "idle" /\ last'.kind = "image" /\ last'.result.error) =>
          /\ "image load failed" \in uncaught'
          /\ mapImages' = mapImages
          /\ outcome' = outcome]_vars

\* the load requested by a returned install failed; the icon is not registered
C11_Witness ==
    /\ last.kind = "image"
    /\ last.result.error
    /\ "image load failed" \in uncaught
    /\ outcome = "returned"
    /\ "user-pin" \notin mapImages[last.map]

\* C12: point-click routing is optional: after a call of
\* addClusteredUsersToMap / reRenderUsersOnMap without a point-click callback
\* no click handler is bound to "unclustered-points" (a click on a point
\* invokes nothing), and a click on a cluster never invokes a callback.
C12_PointClickOptional ==
    /\ (pc = "idle" /\ outcome = "returned" /\ frame.cb = Undefined) =>
          Bound(mapListeners[frame.map], "unclustered-points") = 0
    /\ (last.kind = "click" /\ last.layer = "clusters") => last.invoked = 0

----------------------------------------------------------------------------
(* filterData (part_000:138-146), applied to bounded paginated results *)

ResultUserIds == {3, 7}

\* a search result: `user` is {} when the result has no user
NoUser == [user |-> {}]
ResultOf(u) == [user |-> {[userId |-> u]}]
Results == {NoUser} \cup {ResultOf(u) : u \in ResultUserIds}
Pages == {[resultsList |-> rs] : rs \in SeqsUpTo(Results, MaxResults)}

\* FlatMapPages taking the first page only
FlatMapFirstPage(pages) == IF pages = <<>> THEN <<>> ELSE pages[1].resultsList

\* part_000:140: data.pages.flatMap((page) => page.resultsList)
RECURSIVE FlatMapPages(_)
FlatMapPages(pages) ==
    IF pages = <<>> THEN <<>>
    ELSE pages[1].resultsList \o FlatMapPages(Tail(pages))

\* part_000:141-143: .map((result) => result.user)
MapUser(results) == [i \in DOMAIN results |-> results[i].user]

\* part_000:144: .filter((user) => !!user)
IsTruthy(user) == user # {}
FilterUsers(users) == SelectSeq(users, IsTruthy)

\* part_000:145: .map((user) => user.userId)
MapUserId(users) == [i \in DOMAIN users |-> (CHOOSE u \in users[i] : TRUE).userId]

\* part_000:138-146
filterData(pages) == MapUserId(FilterUsers(MapUser(FlatMapPages(pages))))

\* the application calls filterData on the data it holds
FilterData ==
    /\ ~extracted.called
    /\ extracted' = [called |-> TRUE, value |-> filterData(data)]
    /\ UNCHANGED <<data, configVars, mapVars, asyncVars, pc, frame, outcome,
                   engineErrors, uncaught>>

\* the search delivers one more page (react-query's InfiniteData grows by pages)
FetchPage(page) ==
    /\ ~extracted.called
    /\ Len(data) < MaxPages
    /\ data' = Append(data, page)
    /\ UNCHANGED <<extracted, configVars, mapVars, asyncVars, pc, frame, outcome,
                   engineErrors, uncaught>>

InitFilterData ==
    /\ data = <<>>
    /\ extracted = NotExtracted
    /\ sources = [k \in {SourceKey} |-> InitSources]
    /\ layers = InitLayers
    /\ mapSources = [m \in Maps |-> NoSources]
    /\ mapLayers = [m \in Maps |-> <<>>]
    /\ mapListeners = [m \in Maps |-> EmptyBag]
    /\ mapImages = [m \in Maps |-> {}]
    /\ imageLoads = [m \in Maps |-> 0]
    /\ zoomQueries = [m \in Maps |-> EmptyBag]
    /\ last = NoEvent
    /\ pc = "idle"
    /\ frame = NoFrame
    /\ outcome = "none"
    /\ engineErrors = {}
    /\ uncaught = {}

NextFilterData ==
    \/ \E page \in Pages : FetchPage(page)
    \/ FilterData

SpecFilterData == InitFilterData /\ [][NextFilterData]_vars

\* the user ids of the results of page p from result i on, in order
RECURSIVE IdsFrom(_, _)
IdsFrom(rs, i) ==
    IF i > Len(rs) THEN <<>>
    ELSE (IF rs[i] = NoUser THEN <<>>
          ELSE <<(CHOOSE u \in rs[i].user : TRUE).userId>>) \o IdsFrom(rs, i + 1)

RECURSIVE IdsOfPages(_, _)
IdsOfPages(pages, p) ==
    IF p > Len(pages) THEN <<>>
    ELSE IdsFrom(pages[p].resultsList, 1) \o IdsOfPages(pages, p + 1)

ExampleData ==
    <<[resultsList |-> <<ResultOf(7), NoUser, ResultOf(3)>>],
      [resultsList |-> <<ResultOf(3)>>]>>

\* C13: filterData returns the user ids of all results that have a user, in
\* page order and then result order, results without a user dropped,
\* duplicates kept, nothing reordered; pages [7, no-user, 3] and [3] give
\* [7, 3, 3].
C13_ExtractsIdsInOrder ==
    extracted.called =>
        /\ extracted.value = IdsOfPages(data, 1)
        /\ data = ExampleData => extracted.value = <<7, 3, 3>>
        /\ (\A p \in DOMAIN data : \A i \in DOMAIN data[p].resultsList :
               data[p].resultsList[i] = NoUser) => extracted.value = <<>>

\* the example of the claim was extracted
C13_Witness ==
    /\ extracted.called
    /\ data = ExampleData
    /\ extracted.value = <<7, 3, 3>>

\* C14: addClusteredUsersToMap on a map that already has the source
\* "clustered-users" is rejected with an error at its first statement and
\* leaves the map unchanged: no layer, click binding or image load is added.
C14_DoubleInstallRejected ==
    [][/\ (pc = "idle" /\ pc' = "addSource") =>
             UNCHANGED <<mapVars, imageLoads, configVars>>
       /\ (pc = "addSource" /\ frame.op = "addClusteredUsersToMap"
             /\ Installed(frame.map)) =>
             /\ pc' = "idle"
             /\ outcome' = "threw"
             /\ UNCHANGED <<mapVars, imageLoads, configVars>>]_vars

\* a second install was rejected; the map still has one binding per layer
C14_Witness ==
    /\ pc = "idle"
    /\ outcome = "threw"
    /\ frame.op = "addClusteredUsersToMap"
    /\ frame.cb = "cb1"
    /\ FullyInstalled(frame.map)
    /\ mapListeners[frame.map] =
         SetToBag({Binding("clusters", "zoomCluster"),
                   Binding("unclustered-points", "cb1")})

----------------------------------------------------------------------------
(* Specification: an install followed by reinstalls of the same configuration *)

\* the call passes the callback argument of the call before it
SameCallback(cb) == outcome = "none" \/ frame.cb = cb

\* the call passes the ID filter the installed source carries
SameFilter(m, ids) ==
    Installed(m) =>
        LET config == mapSources[m][SourceKey]
        IN  IF ids.isNull THEN ~HasFilter(config)
            ELSE HasFilter(config) /\ config["filter"] = InFilter(ids.list)

NextReinstall ==
    \/ Statement
    \/ \E cb \in CallbackArgs : SameCallback(cb) /\ CallAddClusteredUsersToMap("A", cb)
    \/ \E ids \in IdArgs, cb \in CallbackArgs :
          SameCallback(cb) /\ SameFilter("A", ids) /\ CallReRenderUsersOnMap("A", ids, cb)
    \/ \E error \in BOOLEAN : ImageLoaded("A", error)
    \/ \E layerId \in ClickLayers, ev \in Events : Click("A", layerId, ev)
    \/ \E q \in BagToSet(zoomQueries["A"]), res \in ZoomResults : ZoomDone("A", q, res)

SpecReinstall == Init /\ [][NextReinstall]_vars

\* the click bindings addClusteredUsersToMap(map, cb) leaves on a fresh map
BindingsOfInstall(cb) ==
    SetToBag({Binding("clusters", "zoomCluster")}
             \cup (IF cb = Undefined THEN {} ELSE {Binding("unclustered-points", cb)}))

\* C15: reinstall is idempotent: on a fully installed map, a
\* reRenderUsersOnMap call with the same ID filter and the same point-click
\* argument leaves the same source and predicate, the same three layers in
\* the same order and the same set and number of click bindings, with or
\* without a point-click callback.
C15_ReinstallIdempotent ==
    Returned("reRenderUsersOnMap") =>
        /\ FullyInstalled(frame.map)
        /\ SameFilter(frame.map, frame.ids)
        /\ mapListeners[frame.map] = BindingsOfInstall(frame.cb)

\* C16 as stated: whenever the "unclustered-points" layer is installed, the
\* icon "user-pin" is already registered on that map.
C16_IconBeforeLayer ==
    \A m \in Maps :
        HasLayer(mapLayers[m], "unclustered-points") => "user-pin" \in mapImages[m]

\* C16 (amended): registration of the icon is requested, not completed,
\* before the layer is installed: whenever the "unclustered-points" layer is
\* installed, the icon is registered, or a load of it is still pending, or a
\* load of it has failed.
C16_IconRequestedBeforeLayer ==
    \A m \in Maps :
        HasLayer(mapLayers[m], "unclustered-points") =>
            \/ "user-pin" \in mapImages[m]
            \/ imageLoads[m] > 0
            \/ "image load failed" \in uncaught

\* the first install has returned and the icon is still loading
C16_Witness ==
    /\ Returned("addClusteredUsersToMap")
    /\ HasLayer(mapLayers[frame.map], "unclustered-points")
    /\ "user-pin" \notin mapImages[frame.map]
    /\ imageLoads[frame.map] = 1
    /\ uncaught = {}

\* C17: every click delivered to zoomCluster whose first feature carries a
\* cluster_id, whatever its value (0 included), issues an expansion-zoom query
\* for that cluster_id; when the query completes with a zoom z the camera is
\* flown to the cluster's coordinate at zoom z.
C17_QueryForEveryClusterId ==
    /\ (last.kind = "click" /\ last.zoomed > 0 /\ ~NoClusterId(last.event)) =>
          /\ last.issued = last.zoomed
          /\ BagIn([cluster_id |-> {last.event.features[1].properties["cluster_id"]},
                    center |-> last.event.features[1].geometry.coordinates],
                   zoomQueries[last.map])
    /\ (last.kind = "zoom" /\ last.result.zoom # {}) =>
          last.flyTo = <<[center |-> last.query.center, zoom |-> last.result.zoom]>>

----------------------------------------------------------------------------
(* Specification: two map widgets; "B" is only ever installed on, fresh *)

NextTwoMaps ==
    \/ Statement
    \/ \E cb \in CallbackArgs : CallAddClusteredUsersToMap("A", cb)
    \/ \E ids \in IdArgs, cb \in CallbackArgs : CallReRenderUsersOnMap("A", ids, cb)
    \/ \E cb \in CallbackArgs : FullyUninstalled("B") /\ CallAddClusteredUsersToMap("B", cb)
    \/ \E m \in Maps, error \in BOOLEAN : ImageLoaded(m, error)

SpecTwoMaps == Init /\ [][NextTwoMaps]_vars

\* C18: no filter state outlives a map widget: after reRenderUsersOnMap on
\* map A with a non-null ID list, a plain addClusteredUsersToMap on the fresh
\* map B installs the source on B without a filter predicate.
C18_FreshMapUnfiltered ==
    (Returned("addClusteredUsersToMap") /\ frame.map = "B") =>
        /\ Installed("B")
        /\ ~HasFilter(mapSources["B"][SourceKey])
        /\ \A id \in UserIds : Passes(mapSources["B"][SourceKey], id)

\* C19: the shared configuration is changed only by the filter assignment of
\* reRenderUsersOnMap: every other statement and callback (the statements of
\* addClusteredUsersToMap, addPinImages and its load completion, zoomCluster
\* and its query completion, click dispatch) leaves sources["clustered-users"]
\* and the layer specs unchanged, and reRenderUsersOnMap changes nothing of
\* the configuration but the filter.
C19_OnlyFilterRebuilderWrites ==
    [][/\ layers' = layers
       /\ sources' # sources => (pc = "setFilter" /\ frame.op = "reRenderUsersOnMap")
       /\ DOMAIN sources' = {SourceKey}
       /\ DOMAIN sources'[SourceKey] \in {DOMAIN InitSources, DOMAIN InitSources \cup {"filter"}}
       /\ \A k \in DOMAIN InitSources : sources'[SourceKey][k] = sources[SourceKey][k]]_vars

\* a filter was applied and then a click and a zoom completion were delivered;
\* the rest of the configuration is as declared
C19_Witness ==
    /\ Returned("reRenderUsersOnMap")
    /\ last.kind = "zoom"
    /\ HasFilter(sources[SourceKey])
    /\ sources[SourceKey]["filter"] = InFilter(<<1>>)
    /\ DeleteKey(sources[SourceKey]) = InitSources
    /\ layers = InitLayers

----------------------------------------------------------------------------
(* The program when every image load succeeds *)

\* part_000:105-112 with error always undefined, the other operations as in Next
NextLoadsSucceed ==
    \/ Statement
    \/ \E cb \in CallbackArgs : CallAddClusteredUsersToMap("A", cb)
    \/ \E ids \in IdArgs, cb \in CallbackArgs : CallReRenderUsersOnMap("A", ids, cb)
    \/ ImageLoaded("A", FALSE)
    \/ \E layerId \in ClickLayers, ev \in Events : Click("A", layerId, ev)
    \/ \E q \in BagToSet(zoomQueries["A"]), res \in ZoomResults : ZoomDone("A", q, res)

\* a synchronous call runs to its end; the event loop eventually delivers the
\* completion of a pending load, however many calls are made meanwhile
SpecLoadsSucceed ==
    /\ Init
    /\ [][NextLoadsSucceed]_vars
    /\ WF_vars(Statement)
    /\ SF_vars(ImageLoaded("A", FALSE))

IconRegistered(m) == "user-pin" \in mapImages[m]

\* C20: icon registration is monotonic and eventually achieved: no step
\* unregisters "user-pin"; once it is registered addPinImages starts no load;
\* and, when every load succeeds, from a call of addPinImages on the icon is
\* eventually registered and stays registered forever.
C20_IconMonotonicAndEventual ==
    /\ [][\A m \in Maps : IconRegistered(m) => IconRegistered(m)']_vars
    /\ [][(pc = "addPinImages" /\ IconRegistered(frame.map)) =>
             imageLoads' = imageLoads]_vars
    /\ (pc = "addPinImages" /\ frame.map = "A") ~> []IconRegistered("A")

\* the icon was registered by a load, the map was re-rendered afterwards on
\* the fast path and no load is pending
C20_Witness ==
    /\ IconRegistered("A")
    /\ Returned("reRenderUsersOnMap")
    /\ FullyInstalled("A")
    /\ imageLoads["A"] = 0
    /\ last.kind = "image" /\ ~last.result.error /\ ~last.skipped

====
